---- MODULE Spec2Model ----
(***************************************************************************)
(* Model of pattern_matcher.py: a batch driver (main) that reads a block   *)
(* of comma-delimited patterns and a block of slash-delimited paths from   *)
(* standard input and prints, per path, the best matching pattern          *)
(* (find_match) or 'NO MATCH'.                                             *)
(*                                                                         *)
(* A string is a sequence of one-character strings, so that strip, split   *)
(* and join are computed character by character as Python computes them.   *)
(* A field list is a sequence of strings.                                  *)
(***************************************************************************)
EXTENDS Integers, Sequences, FiniteSets, TLC

VARIABLES
    stdin,          \* the whole standard input, one string per line (never changes)
    inputs,         \* the lines the generator 'inputs' has not yielded yet
    pc,             \* position of main(): the statement that runs next
    pattern_size,   \* int of the first header (line 51)
    patterns,       \* the pattern list (line 52)
    path_size,      \* lines the islice 'paths' may still yield (line 56)
    path,           \* the loop variable of line 58
    output,         \* the lines printed so far
    error           \* the exception main() died of, "none" while it has not

vars == <<stdin, inputs, pc, pattern_size, patterns, path_size, path, output, error>>

---------------------------------------------------------------------------
(* Program constants. *)

WILDCARD == <<"*">>
PATTERN_DELIMITER == ","
PATH_DELIMITER == "/"
NO_MATCH == <<"N", "O", " ", "M", "A", "T", "C", "H">>

(* Python's None for exact_match (a list of fields): any real field list   *)
(* has at least one element, and 'if exact_match:' tests truthiness, which *)
(* is false for None and for the empty list alike.                         *)
NoneList == <<>>
(* Python's None for the two integer accumulators, which are never         *)
(* negative once set.                                                      *)
NoneInt == -1

---------------------------------------------------------------------------
(* str.strip(d), str.split(d), d.join(list), list.count(v).                *)

RECURSIVE lstrip(_, _)
lstrip(s, d) ==
    IF s # <<>> /\ Head(s) = d THEN lstrip(Tail(s), d) ELSE s

RECURSIVE rstrip(_, _)
rstrip(s, d) ==
    IF s # <<>> /\ s[Len(s)] = d THEN rstrip(SubSeq(s, 1, Len(s) - 1), d) ELSE s

(* Mutant of strip: trailing delimiters are kept.                          *)
strip_leading_only(s, d) == lstrip(s, d)

strip(s, d) == rstrip(lstrip(s, d), d)

RECURSIVE split(_, _)
split(s, d) ==
    IF s = <<>> THEN <<<<>>>>
    ELSE LET rest == split(Tail(s), d)
         IN  IF Head(s) = d
             THEN <<<<>>>> \o rest
             ELSE <<(<<Head(s)>> \o rest[1])>> \o Tail(rest)

RECURSIVE join(_, _)
join(list_value, d) ==
    IF list_value = <<>> THEN <<>>
    ELSE IF Len(list_value) = 1 THEN list_value[1]
    ELSE list_value[1] \o <<d>> \o join(Tail(list_value), d)

count(list_value, v) ==
    Cardinality({i \in DOMAIN list_value : list_value[i] = v})

to_string(list_value) == join(list_value, PATTERN_DELIMITER)

---------------------------------------------------------------------------
(* is_potential_match: wildcards + equal fields = number of path fields.   *)
(* map(eq, a, b) pads the shorter list with None, which equals no field.   *)

(* Mutant of is_potential_match: the wildcards are not counted.            *)
is_potential_match_no_wildcards(path_fields, pattern_fields) ==
    Cardinality({i \in DOMAIN path_fields \cap DOMAIN pattern_fields :
                    path_fields[i] = pattern_fields[i]}) = Len(path_fields)

is_potential_match(path_fields, pattern_fields) ==
    LET num_wildcards == count(pattern_fields, WILDCARD)
        num_field_matches ==
            Cardinality({i \in DOMAIN path_fields \cap DOMAIN pattern_fields :
                            path_fields[i] = pattern_fields[i]})
    IN  (num_field_matches + num_wildcards) = Len(path_fields)

---------------------------------------------------------------------------
(* resolve_tie: the first pattern with the highest sum of the zero-based   *)
(* indexes of its wildcards.                                               *)

RECURSIVE SumSet(_)
SumSet(S) ==
    IF S = {} THEN 0
    ELSE LET x == CHOOSE y \in S : TRUE IN x + SumSet(S \ {x})

index_sum(pattern) ==
    SumSet({i - 1 : i \in {k \in DOMAIN pattern : pattern[k] = WILDCARD}})

RECURSIVE resolve_tie_loop(_, _, _, _)
resolve_tie_loop(pattern_fields, i, winner, highest_score) ==
    IF i > Len(pattern_fields) THEN winner
    ELSE LET pattern == pattern_fields[i]
             score == index_sum(pattern)
         IN  IF highest_score = NoneInt
             THEN resolve_tie_loop(pattern_fields, i + 1, pattern, score)
             ELSE IF score > highest_score
             THEN resolve_tie_loop(pattern_fields, i + 1, pattern, score)
             ELSE resolve_tie_loop(pattern_fields, i + 1, winner, highest_score)

(* Mutants of resolve_tie: the lowest index sum wins; the last pattern of   *)
(* the highest index sum wins (>= for >).                                  *)
RECURSIVE resolve_tie_lowest_loop(_, _, _, _)
resolve_tie_lowest_loop(pattern_fields, i, winner, lowest_score) ==
    IF i > Len(pattern_fields) THEN winner
    ELSE LET pattern == pattern_fields[i]
             score == index_sum(pattern)
         IN  IF lowest_score = NoneInt \/ score < lowest_score
             THEN resolve_tie_lowest_loop(pattern_fields, i + 1, pattern, score)
             ELSE resolve_tie_lowest_loop(pattern_fields, i + 1, winner,
                                          lowest_score)

resolve_tie_lowest(pattern_fields) ==
    resolve_tie_lowest_loop(pattern_fields, 1, NoneList, NoneInt)

RECURSIVE resolve_tie_last_loop(_, _, _, _)
resolve_tie_last_loop(pattern_fields, i, winner, highest_score) ==
    IF i > Len(pattern_fields) THEN winner
    ELSE LET pattern == pattern_fields[i]
             score == index_sum(pattern)
         IN  IF highest_score = NoneInt \/ score >= highest_score
             THEN resolve_tie_last_loop(pattern_fields, i + 1, pattern, score)
             ELSE resolve_tie_last_loop(pattern_fields, i + 1, winner,
                                        highest_score)

resolve_tie_last(pattern_fields) ==
    resolve_tie_last_loop(pattern_fields, 1, NoneList, NoneInt)

resolve_tie(pattern_fields) ==
    resolve_tie_loop(pattern_fields, 1, NoneList, NoneInt)

---------------------------------------------------------------------------
(* get_best_potential_match: keep the matches with the fewest wildcards,   *)
(* then resolve the tie.  'not wildcard_counter' is true of None and of 0. *)

RECURSIVE fewest_wildcards_loop(_, _, _, _)
fewest_wildcards_loop(potential_matches, i, fewest_wildcards, wildcard_counter) ==
    IF i > Len(potential_matches) THEN fewest_wildcards
    ELSE LET match == potential_matches[i]
             num_wildcards == count(match, WILDCARD)
         IN  IF wildcard_counter = NoneInt \/ wildcard_counter = 0
             THEN fewest_wildcards_loop(potential_matches, i + 1,
                      Append(fewest_wildcards, match), num_wildcards)
             ELSE IF num_wildcards < wildcard_counter
             THEN fewest_wildcards_loop(potential_matches, i + 1,
                      <<match>>, num_wildcards)
             ELSE IF num_wildcards = wildcard_counter
             THEN fewest_wildcards_loop(potential_matches, i + 1,
                      Append(fewest_wildcards, match), wildcard_counter)
             ELSE fewest_wildcards_loop(potential_matches, i + 1,
                      fewest_wildcards, wildcard_counter)

(* Mutant of get_best_potential_match: the wildcard counts are not         *)
(* compared, the tie is resolved among all potential matches.              *)
get_best_potential_match_by_index_sum(potential_matches) ==
    resolve_tie(potential_matches)

get_best_potential_match(potential_matches) ==
    LET fewest_wildcards ==
            fewest_wildcards_loop(potential_matches, 1, <<>>, NoneInt)
    IN  IF Len(fewest_wildcards) = 1
        THEN fewest_wildcards[1]
        ELSE resolve_tie(fewest_wildcards)

---------------------------------------------------------------------------
(* find_match: the scan over the patterns (lines 81-97), which stops at    *)
(* the first exact match, and the choice of the result (lines 99-108).     *)

path_to_fields(p) == split(strip(p, PATH_DELIMITER), PATH_DELIMITER)

pattern_to_fields(pattern) ==
    split(strip(pattern, PATTERN_DELIMITER), PATTERN_DELIMITER)

(* Mutant of scan_patterns: the field counts are not compared.             *)
RECURSIVE scan_patterns_any_length(_, _, _, _)
scan_patterns_any_length(path_fields, pattern_list, i, potential_matches) ==
    IF i > Len(pattern_list)
    THEN [exact_match |-> NoneList, potential_matches |-> potential_matches]
    ELSE LET pattern_fields == pattern_to_fields(pattern_list[i])
         IN  IF path_fields = pattern_fields
             THEN [exact_match |-> pattern_fields,
                   potential_matches |-> potential_matches]
             ELSE IF /\ count(pattern_fields, WILDCARD) > 0
                     /\ is_potential_match(path_fields, pattern_fields)
             THEN scan_patterns_any_length(path_fields, pattern_list, i + 1,
                      Append(potential_matches, pattern_fields))
             ELSE scan_patterns_any_length(path_fields, pattern_list, i + 1,
                      potential_matches)

RECURSIVE scan_patterns(_, _, _, _)
scan_patterns(path_fields, pattern_list, i, potential_matches) ==
    IF i > Len(pattern_list)
    THEN [exact_match |-> NoneList, potential_matches |-> potential_matches]
    ELSE LET pattern_fields == pattern_to_fields(pattern_list[i])
         IN  IF path_fields = pattern_fields
             THEN [exact_match |-> pattern_fields,
                   potential_matches |-> potential_matches]
             ELSE IF /\ Len(path_fields) = Len(pattern_fields)
                     /\ count(pattern_fields, WILDCARD) > 0
                     /\ is_potential_match(path_fields, pattern_fields)
             THEN scan_patterns(path_fields, pattern_list, i + 1,
                                Append(potential_matches, pattern_fields))
             ELSE scan_patterns(path_fields, pattern_list, i + 1,
                                potential_matches)

(* Mutant of find_match: the potential matches are looked at before the    *)
(* exact match.                                                            *)
find_match_potential_first(p, pattern_list) ==
    LET path_fields == path_to_fields(p)
        found == scan_patterns(path_fields, pattern_list, 1, <<>>)
        exact_match == found.exact_match
        potential_matches == found.potential_matches
    IN  IF potential_matches # <<>>
        THEN IF Len(potential_matches) = 1
             THEN to_string(potential_matches[1])
             ELSE to_string(get_best_potential_match(potential_matches))
        ELSE IF exact_match # <<>>
        THEN to_string(exact_match)
        ELSE NO_MATCH

find_match(p, pattern_list) ==
    LET path_fields == path_to_fields(p)
        found == scan_patterns(path_fields, pattern_list, 1, <<>>)
        exact_match == found.exact_match
        potential_matches == found.potential_matches
    IN  IF exact_match # <<>>
        THEN to_string(exact_match)
        ELSE IF potential_matches # <<>>
        THEN IF Len(potential_matches) = 1
             THEN to_string(potential_matches[1])
             ELSE to_string(get_best_potential_match(potential_matches))
        ELSE NO_MATCH

---------------------------------------------------------------------------
(* int(line): an optional minus sign and decimal digits; anything else     *)
(* raises ValueError.                                                      *)

Digits == {"0", "1", "2", "3", "4", "5", "6", "7", "8", "9"}

DigitValue(c) ==
    CASE c = "0" -> 0 [] c = "1" -> 1 [] c = "2" -> 2 [] c = "3" -> 3
      [] c = "4" -> 4 [] c = "5" -> 5 [] c = "6" -> 6 [] c = "7" -> 7
      [] c = "8" -> 8 [] c = "9" -> 9

AllDigits(s) == s # <<>> /\ \A i \in DOMAIN s : s[i] \in Digits

is_int(s) ==
    \/ AllDigits(s)
    \/ s # <<>> /\ Head(s) = "-" /\ AllDigits(Tail(s))

RECURSIVE digits_value(_)
digits_value(s) ==
    IF s = <<>> THEN 0
    ELSE 10 * digits_value(SubSeq(s, 1, Len(s) - 1)) + DigitValue(s[Len(s)])

int(s) == IF Head(s) = "-" THEN 0 - digits_value(Tail(s)) ELSE digits_value(s)

(* islice(inputs, n) consumed whole: the first n lines, fewer at the end of *)
(* the stream.                                                             *)
Min(a, b) == IF a < b THEN a ELSE b

take(s, n) == SubSeq(s, 1, Min(n, Len(s)))

drop(s, n) == SubSeq(s, Min(n, Len(s)) + 1, Len(s))

---------------------------------------------------------------------------
(* main(), one action per statement.                                       *)

Raise(e) ==
    /\ pc' = "error"
    /\ error' = e

(* line 51: pattern_size = int(list(islice(inputs, 1))[0]) *)
ReadPatternSize ==
    /\ pc = "read_pattern_size"
    /\ IF inputs = <<>>
       THEN Raise("IndexError") /\ UNCHANGED <<inputs, pattern_size>>
       ELSE /\ inputs' = Tail(inputs)
            /\ IF is_int(Head(inputs))
               THEN /\ pattern_size' = int(Head(inputs))
                    /\ pc' = "read_patterns"
                    /\ UNCHANGED error
               ELSE Raise("ValueError") /\ UNCHANGED pattern_size
    /\ UNCHANGED <<stdin, patterns, path_size, path, output>>

(* line 52: patterns = list(islice(inputs, pattern_size)); islice rejects  *)
(* a negative stop with ValueError.                                        *)
ReadPatterns ==
    /\ pc = "read_patterns"
    /\ IF pattern_size < 0
       THEN Raise("ValueError") /\ UNCHANGED <<inputs, patterns>>
       ELSE /\ patterns' = take(inputs, pattern_size)
            /\ inputs' = drop(inputs, pattern_size)
            /\ pc' = "read_path_size"
            /\ UNCHANGED error
    /\ UNCHANGED <<stdin, pattern_size, path_size, path, output>>

(* lines 55-56: path_size = int(list(islice(inputs, 1))[0]);               *)
(* paths = islice(inputs, path_size), which is lazy.                       *)
ReadPathSize ==
    /\ pc = "read_path_size"
    /\ IF inputs = <<>>
       THEN Raise("IndexError") /\ UNCHANGED <<inputs, path_size>>
       ELSE /\ inputs' = Tail(inputs)
            /\ IF is_int(Head(inputs)) /\ int(Head(inputs)) >= 0
               THEN /\ path_size' = int(Head(inputs))
                    /\ pc' = "loop"
                    /\ UNCHANGED error
               ELSE Raise("ValueError") /\ UNCHANGED path_size
    /\ UNCHANGED <<stdin, pattern_size, patterns, path, output>>

(* Mutant of ProcessPath: the new line is put before the lines printed.    *)
ProcessPath_prepend ==
    /\ pc = "loop"
    /\ path_size > 0
    /\ inputs # <<>>
    /\ path' = Head(inputs)
    /\ inputs' = Tail(inputs)
    /\ path_size' = path_size - 1
    /\ output' = <<find_match(Head(inputs), patterns)>> \o output
    /\ UNCHANGED <<stdin, pc, pattern_size, patterns, error>>

(* lines 58-59: one iteration of 'for path in paths: print find_match'.    *)
ProcessPath ==
    /\ pc = "loop"
    /\ path_size > 0
    /\ inputs # <<>>
    /\ path' = Head(inputs)
    /\ inputs' = Tail(inputs)
    /\ path_size' = path_size - 1
    /\ output' = Append(output, find_match(Head(inputs), patterns))
    /\ UNCHANGED <<stdin, pc, pattern_size, patterns, error>>

(* Mutant of Finish: the end of the stream before the declared number of   *)
(* paths is an error.                                                      *)
Finish_strict ==
    /\ pc = "loop"
    /\ path_size = 0 \/ inputs = <<>>
    /\ IF path_size = 0
       THEN pc' = "done" /\ UNCHANGED error
       ELSE pc' = "error" /\ error' = "StopIteration"
    /\ UNCHANGED <<stdin, inputs, pattern_size, patterns, path_size, path,
                   output>>

(* line 58: the islice is exhausted, or the stream is; main() returns.     *)
Finish ==
    /\ pc = "loop"
    /\ path_size = 0 \/ inputs = <<>>
    /\ pc' = "done"
    /\ UNCHANGED <<stdin, inputs, pattern_size, patterns, path_size, path,
                   output, error>>

Next ==
    \/ ReadPatternSize
    \/ ReadPatterns
    \/ ReadPathSize
    \/ ProcessPath
    \/ Finish

---------------------------------------------------------------------------
(* Bounds of the checked input spaces.                                     *)

MaxLines == 6       \* lines of standard input, driver specification
MaxFields == 2      \* fields of a pattern or a path, matching specification
MaxPatterns == 2    \* patterns of the list, matching specification
PadFields == 2      \* fields of a pattern or a path, stripping specification
PadPatterns == 2    \* patterns of the list, stripping specification
MaxPad == 2         \* extra leading or trailing delimiters tried
TieFields == 5      \* fields of every pattern and path, tie specification
TiePatterns == 2    \* patterns of the list, tie specification

SeqsUpTo(S, n) == UNION {[1..k -> S] : k \in 0..n}

FieldLists(S, n) == UNION {[1..k -> S] : k \in 1..n}

Decimal(n) == <<CHOOSE c \in Digits : DigitValue(c) = n>>

(* The state main() starts in, reading the stream 'lines'.                 *)
Start(lines) ==
    /\ stdin = lines
    /\ inputs = lines
    /\ pc = "read_pattern_size"
    /\ pattern_size = 0
    /\ patterns = <<>>
    /\ path_size = 0
    /\ path = <<>>
    /\ output = <<>>
    /\ error = "none"

(* The state in which main() enters the loop of line 58, having read the   *)
(* well-formed stream of these patterns and paths up to the path count.    *)
AtLoop(pattern_list, path_list) ==
    /\ stdin = <<Decimal(Len(pattern_list))>> \o pattern_list
                  \o <<Decimal(Len(path_list))>> \o path_list
    /\ inputs = path_list
    /\ pc = "loop"
    /\ pattern_size = Len(pattern_list)
    /\ patterns = pattern_list
    /\ path_size = Len(path_list)
    /\ path = <<>>
    /\ output = <<>>
    /\ error = "none"

LoopNext == ProcessPath \/ Finish

(* A well-formed stream: the count, the patterns, the count, the paths.    *)
Stream(pattern_list, path_list) ==
    <<Decimal(Len(pattern_list))>> \o pattern_list
        \o <<Decimal(Len(path_list))>> \o path_list

(* Driver specification: every stream of at most MaxLines lines drawn from *)
(* counts (valid, negative, malformed), patterns and paths, so that short, *)
(* long and malformed inputs all occur.                                    *)
DriverLines ==
    { <<"1">>, <<"2">>, <<"-", "1">>, <<"x">>,
      <<"a", ",", "*">>, <<",", "*", ",", "a">>,
      <<"/", "a", "/", "a", "/">> }

Init == \E lines \in SeqsUpTo(DriverLines, MaxLines) : Start(lines)

Spec == Init /\ [][Next]_vars

(* Matching specification: one path against every list of at most          *)
(* MaxPatterns patterns of at most MaxFields fields; the empty line and    *)
(* the text of the sentinel stand among the patterns and the paths.        *)
PatternAlphabet == {<<"a">>, WILDCARD}

PathAlphabet == {<<"a">>, <<"b">>, WILDCARD}

MatchPatterns ==
    {join(f, PATTERN_DELIMITER) : f \in FieldLists(PatternAlphabet, MaxFields)}
        \cup {<<>>, NO_MATCH}

MatchPaths ==
    {join(f, PATH_DELIMITER) : f \in FieldLists(PathAlphabet, MaxFields)}
        \cup {<<>>, NO_MATCH}

InitMatch ==
    \E pattern_list \in SeqsUpTo(MatchPatterns, MaxPatterns), p \in MatchPaths :
        Start(Stream(pattern_list, <<p>>))

SpecMatch == InitMatch /\ [][Next]_vars

(* Stripping specification, from the entry of the loop: one path of at     *)
(* most PadFields equal fields (a/a, b/b/b, ...) against every list of at  *)
(* most PadPatterns patterns of at most PadFields fields, all read either  *)
(* bare or with one leading and one trailing delimiter.                    *)
PadPathFields ==
    {[k \in 1..n |-> f] : n \in 1..PadFields, f \in {<<"a">>, <<"b">>}}

Wrapped(s, d, n) == [k \in 1..n |-> d] \o s \o [k \in 1..n |-> d]

InitPad ==
    \E qs \in SeqsUpTo(FieldLists(PatternAlphabet, PadFields), PadPatterns),
       pf \in PadPathFields,
       n \in {0, 1} :
        AtLoop(
            [i \in DOMAIN qs |->
                Wrapped(join(qs[i], PATTERN_DELIMITER), PATTERN_DELIMITER, n)],
            <<Wrapped(join(pf, PATH_DELIMITER), PATH_DELIMITER, n)>>)

SpecPad == InitPad /\ [][LoopNext]_vars

(* Tie specification, from the entry of the loop: the path a/a/.../a of TieFields fields against every *)
(* list of at most TiePatterns patterns of TieFields fields.               *)
TiePatternSet ==
    {join(f, PATTERN_DELIMITER) : f \in [1..TieFields -> PatternAlphabet]}

TiePath == join([k \in 1..TieFields |-> <<"a">>], PATH_DELIMITER)

InitTie ==
    \E pattern_list \in SeqsUpTo(TiePatternSet, TiePatterns) :
        AtLoop(pattern_list, <<TiePath>>)

SpecTie == InitTie /\ [][LoopNext]_vars

---------------------------------------------------------------------------
(* Vocabulary of the properties, read when main() has returned: the path   *)
(* last taken by the loop, the line printed for it, and the patterns seen  *)
(* as field lists.  The sets    *)
(* below take the field lists as parameters: pf is the path's field list,  *)
(* qf the sequence of the patterns' field lists.                           *)

Processed == pc = "done" /\ output # <<>>

Result == output[Len(output)]

PathFields == path_to_fields(path)

PatternFields == [i \in DOMAIN patterns |-> pattern_to_fields(patterns[i])]

WildcardPositions(fields) ==
    {k - 1 : k \in {n \in DOMAIN fields : fields[n] = WILDCARD}}

Wildcards(fields) == Cardinality(WildcardPositions(fields))

IndexSum(fields) == SumSet(WildcardPositions(fields))

Leftmost(fields) ==
    CHOOSE k \in WildcardPositions(fields) :
        \A n \in WildcardPositions(fields) : k <= n

Rendered(fields) == join(fields, PATTERN_DELIMITER)

HasWildcard(fields) == WildcardPositions(fields) # {}

(* Position by position, the pattern field equals the path field or is     *)
(* the wildcard.                                                           *)
Covers(path_fields, pattern_fields) ==
    /\ Len(path_fields) = Len(pattern_fields)
    /\ \A k \in DOMAIN pattern_fields :
          \/ pattern_fields[k] = path_fields[k]
          \/ pattern_fields[k] = WILDCARD

(* The count form of eligibility: equal positions plus wildcard fields     *)
(* make up the field count.                                                *)
Eligible(path_fields, pattern_fields) ==
    /\ Len(path_fields) = Len(pattern_fields)
    /\ Cardinality({k \in DOMAIN pattern_fields :
                       pattern_fields[k] = path_fields[k]})
         + Wildcards(pattern_fields)
         = Len(path_fields)

ExactOf(pf, qf) == {i \in DOMAIN qf : qf[i] = pf}

(* The candidate set: same field count, at least one wildcard, eligible,   *)
(* not an exact match.                                                     *)
CandOf(pf, qf) ==
    {i \in DOMAIN qf :
        qf[i] # pf /\ HasWildcard(qf[i]) /\ Eligible(pf, qf[i])}

(* The candidates with the fewest wildcards, and those of them with the    *)
(* highest index sum.                                                      *)
MinOf(cand, qf) ==
    {i \in cand : \A j \in cand : Wildcards(qf[i]) <= Wildcards(qf[j])}

TopOf(min, qf) ==
    {i \in min : \A j \in min : IndexSum(qf[j]) <= IndexSum(qf[i])}

First(S) == CHOOSE i \in S : \A j \in S : i <= j

MatchOf(pf, qf) == {i \in DOMAIN qf : Covers(pf, qf[i])}

---------------------------------------------------------------------------
(* C1: whenever some pattern's fields equal the path's fields, the line    *)
(* printed is that pattern's fields joined by commas, wherever the pattern *)
(* stands in the list and whatever candidates stand before or after it.    *)
C1_ExactMatchWins ==
    Processed =>
        LET pf == PathFields
            qf == PatternFields
        IN  \A i \in ExactOf(pf, qf) : Result = Rendered(qf[i])

(* An exact match of two fields in second place, behind a wildcard         *)
(* candidate.                                                              *)
C1_Witness ==
    /\ Processed
    /\ LET pf == PathFields
           qf == PatternFields
       IN  /\ ~HasWildcard(pf)
           /\ Len(pf) = 2
           /\ 1 \in CandOf(pf, qf)
           /\ 2 \in ExactOf(pf, qf)
           /\ Result = Rendered(qf[2])

(* C2: with no exact match and a non-empty candidate set, the line printed *)
(* is a candidate with the fewest wildcards of all candidates.             *)
C2_FewestWildcards ==
    Processed =>
        LET pf == PathFields
            qf == PatternFields
            cand == CandOf(pf, qf)
        IN  (ExactOf(pf, qf) = {} /\ cand # {}) =>
                \E i \in cand :
                    /\ Result = Rendered(qf[i])
                    /\ \A j \in cand : Wildcards(qf[i]) <= Wildcards(qf[j])

(* A candidate with more wildcards stands before the one printed.          *)
C2_Witness ==
    /\ Processed
    /\ LET pf == PathFields
           qf == PatternFields
           cand == CandOf(pf, qf)
       IN  /\ ExactOf(pf, qf) = {}
           /\ \E i, j \in cand :
                 /\ j < i
                 /\ Wildcards(qf[i]) < Wildcards(qf[j])
                 /\ Result = Rendered(qf[i])

(* C3: with no exact match and two or more candidates sharing the minimum  *)
(* wildcard count, the line printed is one of them, and none of them has a *)
(* greater sum of zero-based wildcard positions.                           *)
C3_HighestIndexSum ==
    Processed =>
        LET pf == PathFields
            qf == PatternFields
            min == MinOf(CandOf(pf, qf), qf)
        IN  (ExactOf(pf, qf) = {} /\ Cardinality(min) >= 2) =>
                \E i \in min :
                    /\ Result = Rendered(qf[i])
                    /\ \A j \in min : IndexSum(qf[j]) <= IndexSum(qf[i])

(* Two candidates of minimum wildcard count, the later with the greater    *)
(* index sum, which is printed.                                            *)
C3_Witness ==
    /\ Processed
    /\ LET pf == PathFields
           qf == PatternFields
           min == MinOf(CandOf(pf, qf), qf)
       IN  /\ ExactOf(pf, qf) = {}
           /\ \E i, j \in min :
                 /\ j < i
                 /\ IndexSum(qf[j]) < IndexSum(qf[i])
                 /\ Result = Rendered(qf[i])

(* C4: with no exact match and several candidates, no candidate with the   *)
(* wildcard count of the pattern printed has its leftmost wildcard further *)
(* to the right than the pattern printed.                                  *)
C4_LeftmostFurthestRight ==
    Processed =>
        LET pf == PathFields
            qf == PatternFields
            cand == CandOf(pf, qf)
        IN  (ExactOf(pf, qf) = {} /\ Cardinality(cand) >= 2) =>
                \E i \in cand :
                    /\ Result = Rendered(qf[i])
                    /\ \A j \in cand :
                          Wildcards(qf[j]) = Wildcards(qf[i]) =>
                              Leftmost(qf[j]) <= Leftmost(qf[i])

(* C10: with no exact match, when several candidates share the minimum     *)
(* wildcard count and the highest index sum, the line printed is the one   *)
(* of them that stands first in the pattern list.                          *)
C10_EarliestOfTies ==
    Processed =>
        LET pf == PathFields
            qf == PatternFields
            top == TopOf(MinOf(CandOf(pf, qf), qf), qf)
        IN  (ExactOf(pf, qf) = {} /\ Cardinality(top) >= 2) =>
                Result = Rendered(qf[First(top)])

(* Two different patterns tie on wildcard count and index sum.             *)
C10_Witness ==
    /\ Processed
    /\ LET pf == PathFields
           qf == PatternFields
           top == TopOf(MinOf(CandOf(pf, qf), qf), qf)
       IN  /\ ExactOf(pf, qf) = {}
           /\ \E i, j \in top :
                 i < j /\ qf[i] # qf[j] /\ Result = Rendered(qf[i])

---------------------------------------------------------------------------
(* C5 as stated: for a path without a wildcard field, 'NO MATCH' is        *)
(* printed exactly when no pattern of the path's field count covers it,    *)
(* and any other line printed is the comma-joined fields of a pattern that *)
(* covers it.                                                              *)
C5_NoMatchIffNoneCovers ==
    Processed =>
        LET pf == PathFields
            qf == PatternFields
            match == MatchOf(pf, qf)
        IN  ~HasWildcard(pf) =>
                /\ (Result = NO_MATCH) <=> (match = {})
                /\ Result # NO_MATCH =>
                      \E i \in match : Result = Rendered(qf[i])

(* C5 amended: as above, except that 'NO MATCH' is also what is printed    *)
(* when the path is the single field NO MATCH and a pattern equal to it is *)
(* in the list: the line is then that pattern's own text.  Whenever some   *)
(* pattern covers the path, the line is the text of a covering pattern.    *)
C5_NoMatchIffNoneCoversOrSentinelText ==
    Processed =>
        LET pf == PathFields
            qf == PatternFields
            match == MatchOf(pf, qf)
        IN  ~HasWildcard(pf) =>
                /\ (Result = NO_MATCH) <=>
                      \/ match = {}
                      \/ pf = <<NO_MATCH>> /\ ExactOf(pf, qf) # {}
                /\ Result # NO_MATCH =>
                      \E i \in match : Result = Rendered(qf[i])
                /\ match # {} => \E i \in match : Result = Rendered(qf[i])

(* A pattern of another field count stands in the list together with a     *)
(* wildcard pattern of the path's field count that mismatches in a literal *)
(* field: 'NO MATCH' is printed.                                           *)
C5_Witness ==
    /\ Processed
    /\ Result = NO_MATCH
    /\ LET pf == PathFields
           qf == PatternFields
       IN  /\ ~HasWildcard(pf)
           /\ MatchOf(pf, qf) = {}
           /\ \E i, j \in DOMAIN qf :
                 /\ Len(qf[i]) # Len(pf)
                 /\ Len(qf[j]) = Len(pf)
                 /\ HasWildcard(qf[j])

(* C9 as stated: for every pattern of the path's field count,              *)
(* is_potential_match is true exactly when the pattern covers the path     *)
(* position by position.                                                   *)
C9_CountTestIsPositionwise ==
    Processed =>
        LET pf == PathFields
            qf == PatternFields
        IN  \A i \in DOMAIN qf :
                Len(qf[i]) = Len(pf) =>
                    (is_potential_match(pf, qf[i]) <=> Covers(pf, qf[i]))

(* C9 amended: the equivalence holds for every path none of whose fields   *)
(* is the wildcard token.                                                  *)
C9_CountTestIsPositionwiseNoWildcardPath ==
    Processed =>
        LET pf == PathFields
            qf == PatternFields
        IN  ~HasWildcard(pf) =>
                \A i \in DOMAIN qf :
                    Len(qf[i]) = Len(pf) =>
                        (is_potential_match(pf, qf[i]) <=> Covers(pf, qf[i]))

(* A wildcard pattern that covers the path and one of the same field count *)
(* that does not.                                                          *)
C9_Witness ==
    /\ Processed
    /\ LET pf == PathFields
           qf == PatternFields
       IN  /\ ~HasWildcard(pf)
           /\ \E i, j \in DOMAIN qf :
                 /\ Len(qf[i]) = Len(pf) /\ Len(qf[j]) = Len(pf)
                 /\ HasWildcard(qf[i]) /\ HasWildcard(qf[j])
                 /\ is_potential_match(pf, qf[i])
                 /\ ~is_potential_match(pf, qf[j])

---------------------------------------------------------------------------
(* C6: the line printed does not change when up to MaxPad slashes are put  *)
(* before and after the path, nor when up to MaxPad commas are put before  *)
(* and after any one pattern; and a pattern printed is some pattern's      *)
(* fields joined by commas, with no leading or trailing comma.             *)
Repeat(d, n) == [k \in 1..n |-> d]

Pad(s, d, before, after) == Repeat(d, before) \o s \o Repeat(d, after)

C6_StrippingTransparent ==
    Processed =>
        /\ \A before, after \in 0..MaxPad :
              /\ find_match(Pad(path, PATH_DELIMITER, before, after), patterns)
                    = Result
              /\ \A i \in DOMAIN patterns :
                    find_match(path,
                        [patterns EXCEPT
                            ![i] = Pad(@, PATTERN_DELIMITER, before, after)])
                      = Result
        /\ Result # NO_MATCH =>
              /\ \E i \in DOMAIN patterns :
                    Result = Rendered(pattern_to_fields(patterns[i]))
              /\ Result # <<>> =>
                    /\ Head(Result) # PATTERN_DELIMITER
                    /\ Result[Len(Result)] # PATTERN_DELIMITER

(* A path and a wildcard pattern, both read with leading and trailing      *)
(* delimiters, and the pattern printed without them.                       *)
C6_Witness ==
    /\ Processed
    /\ Head(path) = PATH_DELIMITER
    /\ path[Len(path)] = PATH_DELIMITER
    /\ \E i \in DOMAIN patterns :
          /\ Head(patterns[i]) = PATTERN_DELIMITER
          /\ patterns[i][Len(patterns[i])] = PATTERN_DELIMITER
          /\ HasWildcard(pattern_to_fields(patterns[i]))
          /\ Result = Rendered(pattern_to_fields(patterns[i]))
          /\ Result # patterns[i]

---------------------------------------------------------------------------
(* The input as declared: the two counts, the pattern block, the path      *)
(* lines that follow the second count.                                     *)

ValidCount(line) == is_int(line) /\ int(line) >= 0

DeclaredPatterns == int(stdin[1])

PatternCountValid == stdin # <<>> /\ ValidCount(stdin[1])

PatternBlockComplete ==
    PatternCountValid /\ Len(stdin) - 1 >= DeclaredPatterns

PatternBlock == SubSeq(stdin, 2, DeclaredPatterns + 1)

PathCountAt == DeclaredPatterns + 2

HeadersValid ==
    /\ PatternBlockComplete
    /\ Len(stdin) >= PathCountAt
    /\ ValidCount(stdin[PathCountAt])

DeclaredPaths == int(stdin[PathCountAt])

AvailablePaths == Len(stdin) - PathCountAt

PathLine(i) == stdin[PathCountAt + i]

ShortPatternBlock == PatternCountValid /\ Len(stdin) - 1 < DeclaredPatterns

ShortPathBlock == HeadersValid /\ AvailablePaths < DeclaredPaths

(* C7: with both counts valid and the pattern block complete, main() never *)
(* fails; the i-th line printed is find_match of the i-th path line        *)
(* against the whole pattern block; and when main() returns it has printed *)
(* one line for each of the first min(declared, available) path lines and  *)
(* none for a later line.                                                  *)
C7_OneLinePerPathInOrder ==
    HeadersValid =>
        /\ pc # "error" /\ error = "none"
        /\ Len(output) <= Min(DeclaredPaths, AvailablePaths)
        /\ \A i \in DOMAIN output :
              output[i] = find_match(PathLine(i), PatternBlock)
        /\ pc = "done" => Len(output) = Min(DeclaredPaths, AvailablePaths)

(* main() has returned after two paths with different results, a further   *)
(* line being left unread.                                                 *)
C7_Witness ==
    /\ HeadersValid
    /\ pc = "done"
    /\ Len(output) = 2
    /\ output[1] # output[2]
    /\ output[2] # NO_MATCH
    /\ AvailablePaths > DeclaredPaths

(* C8 as stated: when the stream ends before the declared number of        *)
(* pattern lines or of path lines, main() raises no error.                 *)
C8_ShortInputNotFatal ==
    (ShortPatternBlock \/ ShortPathBlock) => (pc # "error" /\ error = "none")

(* C8 amended: a short path block is not fatal, main() prints one line per *)
(* available path line and returns; a short pattern block leaves no line   *)
(* for the path count, whose read fails with IndexError before anything is *)
(* printed.                                                                *)
C8_ShortPathsNotFatalShortPatternsIndexError ==
    /\ ShortPathBlock =>
          /\ pc # "error" /\ error = "none"
          /\ (pc = "loop" /\ Len(output) = AvailablePaths) => ENABLED Finish
          /\ (pc = "loop" /\ Len(output) < AvailablePaths) => ~ENABLED Finish
          /\ pc = "done" =>
                /\ Len(output) = AvailablePaths
                /\ \A i \in DOMAIN output :
                      output[i] = find_match(PathLine(i), PatternBlock)
    /\ ShortPatternBlock =>
          /\ pc \notin {"loop", "done"}
          /\ output = <<>>
          /\ pc = "read_path_size" => (inputs = <<>> /\ patterns = Tail(stdin))
          /\ pc = "error" => error = "IndexError"

(* main() has returned normally having printed a pattern for the one path  *)
(* line available where two were declared.                                 *)
C8_Witness ==
    /\ ShortPathBlock
    /\ DeclaredPaths = 2
    /\ pc = "done"
    /\ Len(output) = 1
    /\ output[1] # NO_MATCH
    /\ error = "none"

====
